---- MODULE Spec2Model ----
(***************************************************************************)
(* State-machine model of MicroLoanContract (src/micro_loan_platform/src/  *)
(* lib.rs): a lending pool with loan origination (request_loan), repayment *)
(* (repay_loan) and the two read-only queries.                             *)
(*                                                                         *)
(* Amounts are i64 in the source.  TLC's integers are 32 bits wide, so the *)
(* inputs are drawn from sets that keep every amount below MaxValue; no    *)
(* i64 operation can overflow inside that range, so the arithmetic of the  *)
(* model is the arithmetic of the code on every run it covers.             *)
(*                                                                         *)
(* Interest rates are f32 in the source.  They are modelled as IEEE-754    *)
(* single-precision values [m, e] (value m * 2^e, 24-bit mantissa) with    *)
(* round-to-nearest-even on every conversion and operation.                *)
(***************************************************************************)
EXTENDS Integers, Sequences, FiniteSets, TLC

(***************************************************************************)
(* Bounds of the model.                                                    *)
(***************************************************************************)
\* Most successful request_loan and repay_loan calls explored in one run.
MaxCalls == 3
\* Largest amount any ledger field or input may take in the model.
MaxValue == 2100000000

(***************************************************************************)
(* Program constants.                                                      *)
(***************************************************************************)
MIN_LOAN == 10000000
MAX_LOAN == 1000000000
SAVINGS_DIVISOR == 20
INSURANCE_DIVISOR == 2
INITIAL_INSURANCE_DIVISOR == 10
REWARD_SAVINGS_THRESHOLD == 100000000

(***************************************************************************)
(* Integer helpers.                                                        *)
(***************************************************************************)
Abs(n) == IF n < 0 THEN -n ELSE n

Sgn(n) == IF n < 0 THEN -1 ELSE 1

\* Rust's `/` on i64: the quotient truncated toward zero (b > 0 here).
TruncDiv(a, b) == IF a >= 0 THEN a \div b ELSE -((-a) \div b)

\* x + amount stays inside the range the model explores.
Fits(x, amount) == amount <= MaxValue - x

RECURSIVE Pow2(_)
Pow2(n) == IF n <= 0 THEN 1 ELSE 2 * Pow2(n - 1)

RECURSIVE BitLen(_)
BitLen(n) == IF n <= 0 THEN 0 ELSE 1 + BitLen(n \div 2)

(***************************************************************************)
(* f32: a value is [m |-> mantissa, e |-> exponent], meaning m * 2^e, kept *)
(* normalised: m = 0 and e = 0, or 2^23 <= |m| < 2^24.  The exponent range *)
(* of f32 (-149 .. 104 in this form) is never left by the values the       *)
(* model computes, so subnormals, infinities and NaN do not arise.         *)
(***************************************************************************)
F32_MANT_BITS == 24

F32Zero == [m |-> 0, e |-> 0]

\* Round sgn * mag * 2^e (mag >= 0) to the nearest f32, ties to even.
F32RoundPack(sgn, mag, e) ==
    IF mag = 0 THEN F32Zero
    ELSE LET k == BitLen(mag) - F32_MANT_BITS
         IN IF k <= 0
            THEN [m |-> sgn * mag * Pow2(-k), e |-> e + k]
            ELSE LET q    == mag \div Pow2(k)
                     r    == mag % Pow2(k)
                     half == Pow2(k - 1)
                     up   == (r > half) \/ (r = half /\ q % 2 = 1)
                     q2   == IF up THEN q + 1 ELSE q
                 IN IF q2 = Pow2(F32_MANT_BITS)
                    THEN [m |-> sgn * Pow2(F32_MANT_BITS - 1), e |-> e + k + 1]
                    ELSE [m |-> sgn * q2, e |-> e + k]

\* `n as f32` for an i64 n.
I64ToF32(n) == F32RoundPack(Sgn(n), Abs(n), 0)

\* The literal num / 2^pow (0.5 is F32Lit(1, 1), 5.0 is F32Lit(5, 0)).
F32Lit(num, pow) == F32RoundPack(Sgn(num), Abs(num), -pow)

F32Neg(a) == [m |-> -a.m, e |-> a.e]

\* mag shifted right by d bits, the lowest bit set when a one was shifted out.
ShiftRightJam(mag, d) ==
    IF d = 0 THEN mag
    ELSE IF d >= 31 THEN (IF mag = 0 THEN 0 ELSE 1)
    ELSE LET q == mag \div Pow2(d)
             r == mag % Pow2(d)
         IN IF r # 0 /\ q % 2 = 0 THEN q + 1 ELSE q

\* a + b in f32: three guard bits, the shifted-out bits kept as a sticky bit.
F32Add(a, b) ==
    IF a.m = 0 THEN b
    ELSE IF b.m = 0 THEN a
    ELSE LET x  == IF a.e >= b.e THEN a ELSE b
             y  == IF a.e >= b.e THEN b ELSE a
             X  == Abs(x.m) * 8
             Y  == ShiftRightJam(Abs(y.m) * 8, x.e - y.e)
             sx == Sgn(x.m)
             sy == Sgn(y.m)
         IN IF sx = sy THEN F32RoundPack(sx, X + Y, x.e - 3)
            ELSE IF X >= Y THEN F32RoundPack(sx, X - Y, x.e - 3)
            ELSE F32RoundPack(sy, Y - X, x.e - 3)

F32Sub(a, b) == F32Add(a, F32Neg(b))

\* Comparison of two f32 values: the sign of the difference is exact.
F32Lt(a, b) == F32Sub(a, b).m < 0

F32Gt(a, b) == F32Lt(b, a)

\* f32::min for two numbers.
F32Min(a, b) == IF F32Lt(b, a) THEN b ELSE a

\* a * 2.0: exact, the exponent grows by one.
F32Mul2(a) == IF a.m = 0 THEN a ELSE [m |-> a.m, e |-> a.e + 1]

\* Long division: steps more quotient bits of rem / d, q the bits so far.
RECURSIVE DivBits(_, _, _, _)
DivBits(q, rem, d, steps) ==
    IF steps = 0 THEN <<q, rem>>
    ELSE LET r2 == 2 * rem
         IN IF r2 >= d THEN DivBits(2 * q + 1, r2 - d, d, steps - 1)
            ELSE DivBits(2 * q, r2, d, steps - 1)

\* a / b in f32 for b # 0: 26 fractional quotient bits and a sticky bit.
F32Div(a, b) ==
    IF a.m = 0 THEN F32Zero
    ELSE LET ma == Abs(a.m)
             mb == Abs(b.m)
             qr == DivBits(ma \div mb, ma % mb, mb, 26)
             q  == IF qr[2] # 0 /\ qr[1] % 2 = 0 THEN qr[1] + 1 ELSE qr[1]
         IN F32RoundPack(Sgn(a.m) * Sgn(b.m), q, a.e - b.e - 26)

(***************************************************************************)
(* Inputs of the calls.                                                    *)
(***************************************************************************)
Borrowers == {"b1", "b2"}

\* initial_funds of initialize: i64, not validated (a negative one included).
InitialFunds == {-25, 1020000000}

\* base_rate of initialize: f32, not validated: -1.0, 0.5, 0.75, 5.0, and 2^23
\* and its successor: from 2^23 on neighbouring f32 values are 1.0 apart.
BaseRates ==
    {F32Lit(-1, 0), F32Lit(1, 1), F32Lit(3, 2), F32Lit(5, 0),
     F32Lit(8388608, 0), F32Lit(8388609, 0)}

\* amount of request_loan: both limits and their outer neighbours.
RequestAmounts == {MIN_LOAN - 1, MIN_LOAN, MAX_LOAN, MAX_LOAN + 1}

\* amount of repay_loan: non-positive, tiny, a full small principal, and the
\* two payments around the savings threshold (20 * 100,000,000).
RepayAmounts ==
    {-5, 0, 1, MIN_LOAN,
     SAVINGS_DIVISOR * REWARD_SAVINGS_THRESHOLD - 1,
     SAVINGS_DIVISOR * REWARD_SAVINGS_THRESHOLD}

(***************************************************************************)
(* Results of the calls.  The source returns Err(&'static str); the names  *)
(* are the error kinds of the interface.                                   *)
(***************************************************************************)
Ok == "Ok"

\* "Loan amount must be between 1 XLM and 100 XLM" / "Invalid repayment amount"
InvalidAmount == "InvalidAmount"

\* "Insufficient funds in pool"
InsufficientFunds == "InsufficientFunds"

\* "Blend pool unavailable"
PoolUnavailable == "PoolUnavailable"

\* "No active loan found"
NoActiveLoan == "NoActiveLoan"

(***************************************************************************)
(* State.                                                                  *)
(***************************************************************************)
VARIABLES
    owner,               \* MicroLoanContract.owner
    total_funds,         \* LendingPool.total_funds
    loans,               \* LendingPool.loans: a sequence of Loan records
    insurance_fund,      \* LendingPool.insurance_fund
    base_interest_rate,  \* LendingPool.base_interest_rate
    initial_funds,       \* history: the initial_funds given to initialize
    originated,          \* history: sum of the amounts of successful request_loan
    repaid_net,          \* history: sum of amount - amount/20 of successful repay_loan
    ledger,              \* history: per loan, what the successful repayments brought
    last                 \* history: the last call, its result and its pre-state

vars ==
    <<owner, total_funds, loans, insurance_fund, base_interest_rate,
      initial_funds, originated, repaid_net, ledger, last>>

\* struct Loan; `amount` is the principal.
Loan(borrower, amount, interest_rate, repaid_amount, savings, is_active) ==
    [borrower |-> borrower, amount |-> amount, interest_rate |-> interest_rate,
     repaid_amount |-> repaid_amount, savings |-> savings, is_active |-> is_active]

\* The record of a call: what was called with what, what it returned, the
\* index of the loan a repayment found (0: none), the ledger before the call
\* and the values the two queries returned.
Call(op, borrower, amount, result, target, status, stats) ==
    [op |-> op, borrower |-> borrower, amount |-> amount, result |-> result,
     target |-> target,
     pre_total_funds |-> total_funds, pre_loans |-> loans,
     pre_insurance_fund |-> insurance_fund,
     pre_base_interest_rate |-> base_interest_rate,
     status |-> status, stats |-> stats]

NoStats == <<0, 0, 0>>

(***************************************************************************)
(* initialize                                                              *)
(***************************************************************************)
initialize(o, funds, base_rate) ==
    /\ owner = o
    /\ total_funds = funds
    /\ loans = <<>>
    /\ insurance_fund = TruncDiv(funds, INITIAL_INSURANCE_DIVISOR)
    /\ base_interest_rate = base_rate

Init ==
    \E funds \in InitialFunds, base_rate \in BaseRates :
        /\ initialize("owner", funds, base_rate)
        /\ initial_funds = funds
        /\ originated = 0
        /\ repaid_net = 0
        /\ ledger = <<>>
        /\ last = [op |-> "initialize", borrower |-> "owner", amount |-> funds,
                   result |-> Ok, target |-> 0,
                   pre_total_funds |-> funds, pre_loans |-> <<>>,
                   pre_insurance_fund |-> TruncDiv(funds, INITIAL_INSURANCE_DIVISOR),
                   pre_base_interest_rate |-> base_rate,
                   status |-> <<>>, stats |-> NoStats]

(***************************************************************************)
(* request_loan                                                            *)
(***************************************************************************)
\* .filter(|l| l.is_active).map(|l| l.amount).sum::<i64>()
RECURSIVE SumActiveAmount(_)
SumActiveAmount(ls) ==
    IF ls = <<>> THEN 0
    ELSE (IF Head(ls).is_active THEN Head(ls).amount ELSE 0) + SumActiveAmount(Tail(ls))

calculate_interest_rate(funds, ls, base) ==
    LET utilization == F32Div(I64ToF32(SumActiveAmount(ls)), I64ToF32(funds))
    IN F32Add(base, F32Min(F32Mul2(utilization), F32Lit(5, 0)))

\* Mutant: the pool must hold more than the amount.
check_blend_pool_availability_strict(funds, amount) == funds > amount

check_blend_pool_availability(funds, amount) == funds >= amount

\* Mutant: the lower limit itself is refused.
invalid_loan_amount_strict(amount) == amount <= MIN_LOAN \/ amount > MAX_LOAN

\* if amount < 10_000_000 || amount > 1_000_000_000
invalid_loan_amount(amount) == amount < MIN_LOAN \/ amount > MAX_LOAN

\* Mutant: the new loan is put in front of the collection.
request_loan_outcome_push_front(funds, ls, base, borrower, amount) ==
    IF invalid_loan_amount(amount)
    THEN [result |-> InvalidAmount, total_funds |-> funds, loans |-> ls]
    ELSE IF funds < amount
    THEN [result |-> InsufficientFunds, total_funds |-> funds, loans |-> ls]
    ELSE IF ~check_blend_pool_availability(funds, amount)
    THEN [result |-> PoolUnavailable, total_funds |-> funds, loans |-> ls]
    ELSE LET interest_rate == calculate_interest_rate(funds, ls, base)
             loan == Loan(borrower, amount, interest_rate, 0, 0, TRUE)
         IN [result |-> Ok, total_funds |-> funds - amount,
             loans |-> <<loan>> \o ls]

\* Mutant: the rate is computed after the new loan has been pushed.
request_loan_outcome_rate_after_push(funds, ls, base, borrower, amount) ==
    IF invalid_loan_amount(amount)
    THEN [result |-> InvalidAmount, total_funds |-> funds, loans |-> ls]
    ELSE IF funds < amount
    THEN [result |-> InsufficientFunds, total_funds |-> funds, loans |-> ls]
    ELSE IF ~check_blend_pool_availability(funds, amount)
    THEN [result |-> PoolUnavailable, total_funds |-> funds, loans |-> ls]
    ELSE LET pushed == Append(ls, Loan(borrower, amount, F32Zero, 0, 0, TRUE))
             interest_rate == calculate_interest_rate(funds, pushed, base)
             loan == Loan(borrower, amount, interest_rate, 0, 0, TRUE)
         IN [result |-> Ok, total_funds |-> funds - amount,
             loans |-> Append(ls, loan)]

\* The body of request_loan on a ledger (funds, ls, base): what it returns
\* and the total_funds and loans it leaves.  The three checks return before
\* anything is written; the rate is computed before the debit and the push.
request_loan_outcome(funds, ls, base, borrower, amount) ==
    IF invalid_loan_amount(amount)
    THEN [result |-> InvalidAmount, total_funds |-> funds, loans |-> ls]
    ELSE IF funds < amount
    THEN [result |-> InsufficientFunds, total_funds |-> funds, loans |-> ls]
    ELSE IF ~check_blend_pool_availability(funds, amount)
    THEN [result |-> PoolUnavailable, total_funds |-> funds, loans |-> ls]
    ELSE LET interest_rate == calculate_interest_rate(funds, ls, base)
             loan == Loan(borrower, amount, interest_rate, 0, 0, TRUE)
         IN [result |-> Ok, total_funds |-> funds - amount,
             loans |-> Append(ls, loan)]

EmptyLedger == [paid |-> 0, cuts |-> 0, payments |-> 0, rewards |-> 0]

\* The number of successful repayments so far.
RECURSIVE Repayments(_)
Repayments(lg) ==
    IF lg = <<>> THEN 0 ELSE Head(lg).payments + Repayments(Tail(lg))

\* A successful call is explored while the run has room for it.
RoomForCall == Len(loans) + Repayments(ledger) < MaxCalls

request_loan(borrower, amount) ==
    /\ amount <= total_funds => Fits(originated, amount)
    /\ \E out \in {request_loan_outcome(total_funds, loans, base_interest_rate,
                                        borrower, amount)} :
       /\ out.result = Ok => RoomForCall
       /\ last' = Call("request_loan", borrower, amount, out.result, 0, <<>>,
                       NoStats)
       /\ total_funds' = out.total_funds
       /\ loans' = out.loans
       /\ originated' = IF out.result = Ok THEN originated + amount ELSE originated
       /\ ledger' = IF out.result = Ok THEN Append(ledger, EmptyLedger) ELSE ledger
       /\ UNCHANGED <<owner, insurance_fund, base_interest_rate, initial_funds,
                      repaid_net>>

(***************************************************************************)
(* repay_loan                                                              *)
(***************************************************************************)
\* .iter_mut().find(|l| l.borrower == borrower && l.is_active): the index of
\* the first match from position i on, 0 when there is none.
RECURSIVE FindActiveFrom(_, _, _)
FindActiveFrom(ls, borrower, i) ==
    IF i > Len(ls) THEN 0
    ELSE IF ls[i].borrower = borrower /\ ls[i].is_active THEN i
    ELSE FindActiveFrom(ls, borrower, i + 1)

\* Mutant: the scan keeps the last match instead of the first.
FindActive_last_match(ls, borrower) ==
    LET matches == {i \in 1..Len(ls) :
                        ls[i].borrower = borrower /\ ls[i].is_active}
    IN IF matches = {} THEN 0
       ELSE CHOOSE i \in matches : \A j \in matches : j <= i

FindActive(ls, borrower) == FindActiveFrom(ls, borrower, 1)

\* Mutant: the cut is rounded up instead of down.
savings_cut_rounded_up(amount) ==
    TruncDiv(amount + SAVINGS_DIVISOR - 1, SAVINGS_DIVISOR)

\* let savings = amount / 20;
savings_cut(amount) == TruncDiv(amount, SAVINGS_DIVISOR)

\* Mutant: the whole payment is credited to the pool.
pool_share_whole(amount) == amount

\* Mutant: the insurance share is taken out of the pool's share.
pool_share_less_insurance(amount) ==
    amount - savings_cut(amount) - TruncDiv(savings_cut(amount), INSURANCE_DIVISOR)

\* self.pool.total_funds += amount - savings;
pool_share(amount) == amount - savings_cut(amount)

\* self.pool.insurance_fund += savings / 2;
insurance_share(amount) == TruncDiv(savings_cut(amount), INSURANCE_DIVISOR)

\* Mutant: the rate is not looked at.
reward_applies_any_rate(savings, interest_rate) ==
    savings >= REWARD_SAVINGS_THRESHOLD

\* Mutant: savings must exceed the threshold.
reward_applies_above_threshold(savings, interest_rate) ==
    savings > REWARD_SAVINGS_THRESHOLD /\ F32Gt(interest_rate, F32Lit(1, 1))

\* if loan.savings >= 100_000_000 && loan.interest_rate > 0.5, read after
\* loan.savings has been increased.
reward_applies(savings, interest_rate) ==
    savings >= REWARD_SAVINGS_THRESHOLD /\ F32Gt(interest_rate, F32Lit(1, 1))

\* Mutant: the reward takes a whole point.
reward_rate_whole(interest_rate) == F32Sub(interest_rate, F32Lit(1, 0))

\* loan.interest_rate -= 0.5;
reward_rate(interest_rate) == F32Sub(interest_rate, F32Lit(1, 1))

\* Mutant: a loan repaid to exactly its principal stays open.
closes_above(repaid_amount, amount) == repaid_amount > amount

\* if loan.repaid_amount >= loan.amount { loan.is_active = false; }
closes(repaid_amount, amount) == repaid_amount >= amount

\* Mutant: repaid_amount is capped at the principal.
repaid_loan_capped(loan, amount) ==
    LET sum           == loan.repaid_amount + amount
        repaid_amount == IF sum > loan.amount THEN loan.amount ELSE sum
        savings       == loan.savings + savings_cut(amount)
        interest_rate == IF reward_applies(savings, loan.interest_rate)
                         THEN reward_rate(loan.interest_rate)
                         ELSE loan.interest_rate
        is_active     == IF closes(repaid_amount, loan.amount)
                         THEN FALSE ELSE loan.is_active
    IN Loan(loan.borrower, loan.amount, interest_rate, repaid_amount, savings,
            is_active)

\* The loan after the Some(loan) branch has run with amount > 0.
repaid_loan(loan, amount) ==
    LET repaid_amount == loan.repaid_amount + amount
        savings       == loan.savings + savings_cut(amount)
        interest_rate == IF reward_applies(savings, loan.interest_rate)
                         THEN reward_rate(loan.interest_rate)
                         ELSE loan.interest_rate
        is_active     == IF closes(repaid_amount, loan.amount)
                         THEN FALSE ELSE loan.is_active
    IN Loan(loan.borrower, loan.amount, interest_rate, repaid_amount, savings,
            is_active)

\* Mutant: the amount is checked before the scan's result.
repay_loan_result_amount_first(t, amount) ==
    IF amount <= 0 THEN InvalidAmount
    ELSE IF t = 0 THEN NoActiveLoan
    ELSE Ok

\* match loan { None => Err("No active loan found"), Some(loan) => { if
\* amount <= 0 { return Err("Invalid repayment amount") } ... Ok(()) } }, for
\* the index t the scan returned (0: None).
repay_loan_result(t, amount) ==
    IF t = 0 THEN NoActiveLoan
    ELSE IF amount <= 0 THEN InvalidAmount
    ELSE Ok

\* Mutant: loan.repaid_amount is written before the amount is checked.
repay_loan_outcome_late_check(funds, ls, insurance, borrower, amount) ==
    LET t == FindActive(ls, borrower)
    IN IF t = 0
       THEN [result |-> NoActiveLoan, target |-> 0, total_funds |-> funds,
             loans |-> ls, insurance_fund |-> insurance]
       ELSE IF amount <= 0
       THEN [result |-> InvalidAmount, target |-> t, total_funds |-> funds,
             loans |-> [ls EXCEPT ![t].repaid_amount = @ + amount],
             insurance_fund |-> insurance]
       ELSE [result |-> Ok, target |-> t,
             total_funds |-> funds + pool_share(amount),
             loans |-> [ls EXCEPT ![t] = repaid_loan(@, amount)],
             insurance_fund |-> insurance + insurance_share(amount)]

\* The body of repay_loan on a ledger (funds, ls, insurance): what it
\* returns, the index of the loan the scan found (0: none) and the ledger it
\* leaves.  The scan comes first, then the amount check inside Some(loan).
repay_loan_outcome(funds, ls, insurance, borrower, amount) ==
    LET t == FindActive(ls, borrower)
    IN IF repay_loan_result(t, amount) # Ok
       THEN [result |-> repay_loan_result(t, amount), target |-> t,
             total_funds |-> funds, loans |-> ls, insurance_fund |-> insurance]
       ELSE [result |-> Ok, target |-> t,
             total_funds |-> funds + pool_share(amount),
             loans |-> [ls EXCEPT ![t] = repaid_loan(@, amount)],
             insurance_fund |-> insurance + insurance_share(amount)]

\* A repayment that reaches a loan keeps every sum inside the explored range.
RepayInRange(borrower, amount) ==
    LET t == FindActive(loans, borrower)
    IN (t # 0 /\ amount > 0) =>
            /\ Fits(total_funds, amount)
            /\ Fits(loans[t].repaid_amount, amount)
            /\ Fits(repaid_net, amount)

repay_loan(borrower, amount) ==
    /\ RepayInRange(borrower, amount)
    /\ \E out \in {repay_loan_outcome(total_funds, loans, insurance_fund,
                                      borrower, amount)} :
       LET t == out.target IN
       /\ out.result = Ok => RoomForCall
       /\ last' = Call("repay_loan", borrower, amount, out.result, t, <<>>,
                       NoStats)
       /\ total_funds' = out.total_funds
       /\ loans' = out.loans
       /\ insurance_fund' = out.insurance_fund
       /\ repaid_net' = IF out.result = Ok
                        THEN repaid_net + (amount - (amount \div 20))
                        ELSE repaid_net
       /\ ledger' =
            IF out.result = Ok
            THEN [ledger EXCEPT ![t] =
                    [paid     |-> @.paid + amount,
                     cuts     |-> @.cuts + (amount \div 20),
                     payments |-> @.payments + 1,
                     rewards  |-> @.rewards +
                         (IF out.loans[t].interest_rate # loans[t].interest_rate
                          THEN 1 ELSE 0)]]
            ELSE ledger
       /\ UNCHANGED <<owner, base_interest_rate, initial_funds, originated>>

(***************************************************************************)
(* Queries                                                                 *)
(***************************************************************************)
\* Mutant: the filter ignores is_active.
loan_status_any_state(ls, borrower) ==
    LET matches == {i \in 1..Len(ls) : ls[i].borrower = borrower}
    IN IF matches = {} THEN <<>>
       ELSE <<ls[CHOOSE i \in matches : \A j \in matches : i <= j]>>

\* Option<Loan> as a sequence: <<>> for None, <<loan>> for Some(loan).
loan_status(ls, borrower) ==
    IF FindActive(ls, borrower) = 0 THEN <<>>
    ELSE <<ls[FindActive(ls, borrower)]>>

RECURSIVE CountActive(_)
CountActive(ls) ==
    IF ls = <<>> THEN 0
    ELSE (IF Head(ls).is_active THEN 1 ELSE 0) + CountActive(Tail(ls))

RECURSIVE SumSavings(_)
SumSavings(ls) ==
    IF ls = <<>> THEN 0 ELSE Head(ls).savings + SumSavings(Tail(ls))

\* Mutant: every loan is counted, the closed ones too.
pool_stats_all_loans(funds, ls) == <<funds, Len(ls), SumSavings(ls)>>

pool_stats(funds, ls) == <<funds, CountActive(ls), SumSavings(ls)>>

Frame ==
    UNCHANGED <<owner, total_funds, loans, insurance_fund, base_interest_rate,
                initial_funds, originated, repaid_net, ledger>>

get_loan_status(borrower) ==
    /\ last' = Call("get_loan_status", borrower, 0, Ok, 0,
                    loan_status(loans, borrower), NoStats)
    /\ Frame

get_pool_stats ==
    /\ last' = Call("get_pool_stats", "owner", 0, Ok, 0, <<>>,
                    pool_stats(total_funds, loans))
    /\ Frame

(***************************************************************************)
(* Specification                                                           *)
(***************************************************************************)
RequestLoan == \E b \in Borrowers, a \in RequestAmounts : request_loan(b, a)

RepayLoan == \E b \in Borrowers, a \in RepayAmounts : repay_loan(b, a)

GetLoanStatus == \E b \in Borrowers : get_loan_status(b)

GetPoolStats == get_pool_stats

Next == RequestLoan \/ RepayLoan \/ GetLoanStatus \/ GetPoolStats

Spec == Init /\ [][Next]_vars

(***************************************************************************)
(* Properties                                                              *)
(***************************************************************************)
RequestCalled == last.op = "request_loan"

RepayCalled == last.op = "repay_loan"

Failed == last.result # Ok

\* Some loan of the collection ls has this borrower and is active.
HasActiveLoan(ls, borrower) ==
    \E i \in 1..Len(ls) : ls[i].borrower = borrower /\ ls[i].is_active

\* C1: total_funds is the initial funds, minus the amounts of the successful
\* request_loan calls, plus amount - floor(amount/20) of the successful
\* repay_loan calls; a failed call adds to neither sum.
C1_Conservation ==
    /\ total_funds = initial_funds - originated + repaid_net
    /\ (RequestCalled \/ RepayCalled) /\ Failed =>
            total_funds = last.pre_total_funds

\* C1 witness: a loan was originated, and the last call is a successful
\* repayment of an amount that is no multiple of 20, so the floor matters.
C1_Witness ==
    /\ originated > 0
    /\ RepayCalled /\ last.result = Ok
    /\ last.amount % 20 # 0
    /\ last.amount > 20

\* C2: a call that returns an error leaves total_funds, insurance_fund,
\* base_interest_rate and the whole loan collection as they were.
C2_FailureLeavesLedger ==
    (RequestCalled \/ RepayCalled) /\ Failed =>
        /\ total_funds = last.pre_total_funds
        /\ insurance_fund = last.pre_insurance_fund
        /\ base_interest_rate = last.pre_base_interest_rate
        /\ loans = last.pre_loans

\* C2 witness: a repayment of a non-positive amount was refused on a loan
\* that already holds repayments.
C2_Witness ==
    /\ RepayCalled /\ last.result = InvalidAmount
    /\ last.target # 0
    /\ loans[last.target].repaid_amount > 0

\* C3: request_loan returns InvalidAmount exactly for an amount below
\* 10,000,000 or above 1,000,000,000, whatever the pool holds; otherwise
\* InsufficientFunds exactly when total_funds < amount; otherwise it succeeds
\* and appends a loan.
C3_RequestResult ==
    RequestCalled =>
        /\ last.result =
            (IF last.amount < 10000000 \/ last.amount > 1000000000
             THEN InvalidAmount
             ELSE IF last.pre_total_funds < last.amount THEN InsufficientFunds
             ELSE Ok)
        /\ last.result = Ok <=> Len(loans) = Len(last.pre_loans) + 1

\* C3 witness: the largest valid amount was asked of a pool that holds less.
C3_Witness ==
    /\ RequestCalled /\ last.result = InsufficientFunds
    /\ last.amount = 1000000000
    /\ last.pre_total_funds > 0

\* C4: repay_loan returns NoActiveLoan exactly when the borrower has no active
\* loan, whatever the amount; with an active loan it returns InvalidAmount
\* exactly when amount <= 0 and succeeds otherwise.
C4_RepayResult ==
    RepayCalled =>
        last.result =
            (IF ~HasActiveLoan(last.pre_loans, last.borrower) THEN NoActiveLoan
             ELSE IF last.amount <= 0 THEN InvalidAmount
             ELSE Ok)

\* C4 witness: a non-positive amount met a borrower whose only loan is closed.
C4_Witness ==
    /\ RepayCalled /\ last.result = NoActiveLoan
    /\ last.amount <= 0
    /\ \E i \in 1..Len(loans) : loans[i].borrower = last.borrower

\* C5: a loan is inactive exactly when repaid_amount >= principal; a closed
\* loan is never active again and none of its fields changes; a successful
\* repayment never lands on a closed loan, and a repayment for a borrower
\* whose loans are all closed fails with NoActiveLoan.
C5_LoanClosure ==
    /\ \A i \in 1..Len(loans) :
            ~loans[i].is_active <=> loans[i].repaid_amount >= loans[i].amount
    /\ \A i \in 1..Len(last.pre_loans) :
            ~last.pre_loans[i].is_active =>
                /\ i <= Len(loans)
                /\ loans[i] = last.pre_loans[i]
    /\ RepayCalled /\ last.result = Ok =>
            /\ last.target \in 1..Len(last.pre_loans)
            /\ last.pre_loans[last.target].is_active
    /\ RepayCalled /\ ~HasActiveLoan(last.pre_loans, last.borrower) =>
            last.result = NoActiveLoan /\ loans = last.pre_loans

\* C5 witness: a positive repayment was refused with NoActiveLoan for a
\* borrower whose loan was closed by paying exactly its principal.
C5_Witness ==
    /\ RepayCalled /\ last.result = NoActiveLoan
    /\ last.amount > 0
    /\ \E i \in 1..Len(loans) :
            /\ loans[i].borrower = last.borrower
            /\ ~loans[i].is_active
            /\ loans[i].repaid_amount = loans[i].amount

\* C6: a loan's repaid_amount is the sum of the amounts of the successful
\* repayments applied to it and its savings the sum of floor(amount/20) over
\* them; both are 0 at origination and never decrease; after a partial
\* repayment get_loan_status returns that loan, active, with those values.
C6_RepaymentSums ==
    /\ \A i \in 1..Len(loans) :
            /\ loans[i].repaid_amount = ledger[i].paid
            /\ loans[i].savings = ledger[i].cuts
    /\ RequestCalled /\ last.result = Ok =>
            /\ loans[Len(loans)].repaid_amount = 0
            /\ loans[Len(loans)].savings = 0
    /\ \A i \in 1..Len(last.pre_loans) :
            /\ loans[i].repaid_amount >= last.pre_loans[i].repaid_amount
            /\ loans[i].savings >= last.pre_loans[i].savings
    /\ (/\ RepayCalled /\ last.result = Ok
        /\ loans[last.target].repaid_amount < loans[last.target].amount) =>
            /\ loans[last.target].is_active
            /\ loan_status(loans, last.borrower) = <<loans[last.target]>>

\* C6 witness: a loan holds two partial repayments, one of them no multiple
\* of 20, and is still active.
C6_Witness ==
    /\ RepayCalled /\ last.result = Ok
    /\ ledger[last.target].payments = 2
    /\ loans[last.target].is_active
    /\ loans[last.target].savings > 0
    /\ loans[last.target].repaid_amount % 20 # 0

\* The real number a - b is num * 2^exp, computed exactly on the mantissas.
RealDiffIs(a, b, num, exp) ==
    LET e1   == IF a.e < b.e THEN a.e ELSE b.e
        emin == IF exp < e1 THEN exp ELSE e1
    IN a.m * Pow2(a.e - emin) - b.m * Pow2(b.e - emin) = num * Pow2(exp - emin)

Half == F32Lit(1, 1)

Rate(ls, i) == ls[i].interest_rate

\* The last call was a successful repayment that the scan applied to loan i.
RepaidLoan(i) == RepayCalled /\ last.result = Ok /\ last.target = i

\* C7 as stated: no loan's interest_rate is ever negative, and a loan's rate
\* changes only by a successful repay_loan on that loan, by exactly 0.5
\* downwards, from a rate above 0.5 and with savings >= 100,000,000.
C7_AsStated ==
    /\ \A i \in 1..Len(loans) : ~F32Lt(Rate(loans, i), F32Zero)
    /\ \A i \in 1..Len(last.pre_loans) :
            Rate(loans, i) # Rate(last.pre_loans, i) =>
                /\ RepaidLoan(i)
                /\ RealDiffIs(Rate(last.pre_loans, i), Rate(loans, i), 1, -1)
                /\ F32Gt(Rate(last.pre_loans, i), Half)
                /\ loans[i].savings >= 100000000

\* C7, amended: a rate is negative only if base_interest_rate is, and no call
\* turns a non-negative rate negative; a loan's rate changes only by a
\* successful repay_loan on that loan, from a rate above 0.5 and with savings
\* >= 100,000,000, to the f32 nearest to rate - 0.5, which is positive: exactly
\* 0.5 less for a rate up to 2^23 = 8,388,608, and 1.0 less when a rate above
\* it changes at all.
C7_RateChanges ==
    /\ \A i \in 1..Len(loans) :
            F32Lt(Rate(loans, i), F32Zero) =>
                /\ F32Lt(base_interest_rate, F32Zero)
                /\ i <= Len(last.pre_loans) =>
                        F32Lt(Rate(last.pre_loans, i), F32Zero)
    /\ \A i \in 1..Len(last.pre_loans) :
            Rate(loans, i) # Rate(last.pre_loans, i) =>
                /\ RepaidLoan(i)
                /\ F32Gt(Rate(last.pre_loans, i), Half)
                /\ loans[i].savings >= 100000000
                /\ F32Gt(Rate(loans, i), F32Zero)
                /\ IF ~F32Gt(Rate(last.pre_loans, i), F32Lit(8388608, 0))
                   THEN RealDiffIs(Rate(last.pre_loans, i), Rate(loans, i), 1, -1)
                   ELSE RealDiffIs(Rate(last.pre_loans, i), Rate(loans, i), 1, 0)

\* C7 witness: a repayment lowered a loan's rate by exactly 0.5 while another
\* loan of the pool kept its rate.
C7_Witness ==
    /\ RepayCalled /\ last.result = Ok
    /\ Len(loans) = 2
    /\ RealDiffIs(Rate(last.pre_loans, last.target), Rate(loans, last.target), 1, -1)

\* C8 as stated: a loan whose rate the reward rule has reduced has
\* interest_rate >= 0.5.
C8_AsStated ==
    \A i \in 1..Len(loans) :
        ledger[i].rewards > 0 => ~F32Lt(Rate(loans, i), Half)

\* C8, amended: a loan whose rate the reward rule has reduced has
\* interest_rate > 0.
C8_RewardedRatePositive ==
    \A i \in 1..Len(loans) :
        ledger[i].rewards > 0 => F32Gt(Rate(loans, i), F32Zero)

\* C8 witness: the reward rule has taken a loan's rate below 0.5.
C8_Witness ==
    \E i \in 1..Len(loans) :
        ledger[i].rewards > 0 /\ F32Lt(Rate(loans, i), Half)

\* The principal of the active loans of ls, summed over their indices.
RECURSIVE ActivePrincipalUpTo(_, _)
ActivePrincipalUpTo(ls, n) ==
    IF n = 0 THEN 0
    ELSE ActivePrincipalUpTo(ls, n - 1) + (IF ls[n].is_active THEN ls[n].amount ELSE 0)

ActivePrincipal(ls) == ActivePrincipalUpTo(ls, Len(ls))

\* C9: the rate stored by a successful request_loan is base_interest_rate +
\* min(2 * U, 5.0), in f32, with U = (principal of the loans active before the
\* call, the new loan excluded) / (total_funds before the debit); on a pool
\* without active loans it is base_interest_rate itself.
C9_OriginationRate ==
    RequestCalled /\ last.result = Ok =>
        LET U == F32Div(I64ToF32(ActivePrincipal(last.pre_loans)),
                        I64ToF32(last.pre_total_funds))
        IN /\ Len(loans) = Len(last.pre_loans) + 1
           /\ Rate(loans, Len(loans)) =
                F32Add(last.pre_base_interest_rate, F32Min(F32Mul2(U), F32Lit(5, 0)))
           /\ ActivePrincipal(last.pre_loans) = 0 =>
                Rate(loans, Len(loans)) = last.pre_base_interest_rate

\* C9 witness: a loan was originated on a pool with active loans, funds that
\* are no f32 value (odd and above 2^24), and a premium below the cap.
C9_Witness ==
    /\ RequestCalled /\ last.result = Ok
    /\ ActivePrincipal(last.pre_loans) > 0
    /\ last.pre_total_funds % 2 = 1
    /\ F32Lt(Rate(loans, Len(loans)), F32Add(base_interest_rate, F32Lit(5, 0)))
    /\ F32Gt(Rate(loans, Len(loans)), base_interest_rate)

\* C10 as stated: total_funds >= 0 in every state reachable from
\* initialize(owner, initial_funds, base_rate).
C10_FundsNeverNegative == total_funds >= 0

\* C11 as stated: insurance_fund starts at floor(initial_funds / 10), grows by
\* exactly floor(floor(amount/20) / 2) with each successful repay_loan, is left
\* alone by request_loan and by failed calls, and so never decreases.
C11_InsuranceFund ==
    /\ last.op = "initialize" => insurance_fund = initial_funds \div 10
    /\ RepayCalled /\ last.result = Ok =>
            insurance_fund = last.pre_insurance_fund + ((last.amount \div 20) \div 2)
    /\ RequestCalled \/ (RepayCalled /\ Failed) =>
            insurance_fund = last.pre_insurance_fund
    /\ insurance_fund >= last.pre_insurance_fund

\* The loans of ls at the positions 1..n.
Prefix(ls, n) == SubSeq(ls, 1, n)

\* C12: the collection only grows at its end.  A successful request_loan
\* appends one loan with the borrower and the amount of the call, the amount in
\* [10,000,000, 1,000,000,000], repaid_amount 0, savings 0, active; it debits
\* total_funds by the amount and leaves the other loans and insurance_fund
\* alone.  No other call changes the length, and no call changes the borrower
\* or the principal of a loan, so closed loans stay.
C12_AppendOnly ==
    /\ Len(loans) >= Len(last.pre_loans)
    /\ \A i \in 1..Len(last.pre_loans) :
            /\ loans[i].borrower = last.pre_loans[i].borrower
            /\ loans[i].amount = last.pre_loans[i].amount
    /\ IF RequestCalled /\ last.result = Ok
       THEN /\ Len(loans) = Len(last.pre_loans) + 1
            /\ Prefix(loans, Len(last.pre_loans)) = last.pre_loans
            /\ loans[Len(loans)].borrower = last.borrower
            /\ loans[Len(loans)].amount = last.amount
            /\ last.amount >= 10000000 /\ last.amount <= 1000000000
            /\ loans[Len(loans)].repaid_amount = 0
            /\ loans[Len(loans)].savings = 0
            /\ loans[Len(loans)].is_active
            /\ total_funds = last.pre_total_funds - last.amount
            /\ insurance_fund = last.pre_insurance_fund
       ELSE Len(loans) = Len(last.pre_loans)

\* C12 witness: a loan was appended behind a closed loan, which is still there.
C12_Witness ==
    /\ RequestCalled /\ last.result = Ok
    /\ Len(loans) = 2
    /\ ~loans[1].is_active
    /\ loans[1].borrower # loans[2].borrower

\* The ledger is as it was before the last call.
LedgerUntouched ==
    /\ total_funds = last.pre_total_funds
    /\ loans = last.pre_loans
    /\ insurance_fund = last.pre_insurance_fund
    /\ base_interest_rate = last.pre_base_interest_rate

\* The sum of the savings of the loans at the positions 1..n.
RECURSIVE SavingsUpTo(_, _)
SavingsUpTo(ls, n) ==
    IF n = 0 THEN 0 ELSE SavingsUpTo(ls, n - 1) + ls[n].savings

\* C13: get_pool_stats returns total_funds, the number of loans with is_active
\* true, and the sum of savings over all loans, the closed ones included; it
\* changes nothing.
C13_PoolStats ==
    last.op = "get_pool_stats" =>
        /\ last.stats[1] = total_funds
        /\ last.stats[2] = Cardinality({i \in 1..Len(loans) : loans[i].is_active})
        /\ last.stats[3] = SavingsUpTo(loans, Len(loans))
        /\ LedgerUntouched

\* C13 witness: statistics taken with a closed loan that holds savings next to
\* an active one.
C13_Witness ==
    /\ last.op = "get_pool_stats"
    /\ Len(loans) = 2
    /\ ~loans[1].is_active /\ loans[1].savings > 0
    /\ loans[2].is_active
    /\ last.stats[2] = 1

\* Loan i of ls is an active loan of the borrower.
IsActiveLoanOf(ls, i, borrower) == ls[i].borrower = borrower /\ ls[i].is_active

\* Loan i is the first active loan of the borrower in insertion order.
FirstActive(ls, i, borrower) ==
    /\ i \in 1..Len(ls)
    /\ IsActiveLoanOf(ls, i, borrower)
    /\ \A j \in 1..(i - 1) : ~IsActiveLoanOf(ls, j, borrower)

\* C14: get_loan_status(borrower) returns a copy of the first loan in insertion
\* order that belongs to the borrower and is active, and nothing exactly when
\* there is none; it changes nothing.  The loan it reports is the loan a
\* successful repay_loan of that borrower modifies.
C14_LoanStatus ==
    /\ last.op = "get_loan_status" =>
            /\ IF HasActiveLoan(loans, last.borrower)
               THEN \E i \in 1..Len(loans) :
                        /\ FirstActive(loans, i, last.borrower)
                        /\ last.status = <<loans[i]>>
               ELSE last.status = <<>>
            /\ LedgerUntouched
    /\ RepayCalled /\ last.result = Ok =>
            /\ loan_status(last.pre_loans, last.borrower)
                    = <<last.pre_loans[last.target]>>
            /\ loans[last.target] # last.pre_loans[last.target]
    /\ RepayCalled /\ last.result = NoActiveLoan =>
            loan_status(last.pre_loans, last.borrower) = <<>>

\* C14 witness: the borrower's first loan is closed, and the status is the
\* borrower's second loan.
C14_Witness ==
    /\ last.op = "get_loan_status"
    /\ Len(loans) = 2
    /\ loans[1].borrower = last.borrower /\ ~loans[1].is_active
    /\ last.status = <<loans[2]>>

\* C15: a borrower may hold several active loans.  A successful repay_loan
\* modifies the borrower's first active loan and no other loan, so a loan has
\* received repayments only if every earlier loan of its borrower is closed.
C15_FirstActiveOnly ==
    /\ RepayCalled /\ last.result = Ok =>
            /\ FirstActive(last.pre_loans, last.target, last.borrower)
            /\ \A i \in 1..Len(loans) :
                    i # last.target => loans[i] = last.pre_loans[i]
    /\ \A i \in 1..Len(loans) : \A j \in 1..(i - 1) :
            loans[j].borrower = loans[i].borrower /\ loans[i].repaid_amount > 0
                => ~loans[j].is_active

\* C15 witness: the borrower held two active loans, and the repayment went to
\* the first and left the second as it was.
C15_Witness ==
    /\ RepayCalled /\ last.result = Ok
    /\ Len(loans) = 2
    /\ loans[1].borrower = loans[2].borrower
    /\ last.pre_loans[1].is_active /\ last.pre_loans[2].is_active
    /\ last.target = 1
    /\ loans[2] = last.pre_loans[2] /\ loans[2].repaid_amount = 0

\* The reward rule's conditions hold for loan t in the last repayment: savings
\* >= 100,000,000 after the call and a rate above 0.5 before it.
Qualifying(t) ==
    /\ loans[t].savings >= 100000000
    /\ F32Gt(Rate(last.pre_loans, t), Half)

C17_Overpayment ==
    RepayCalled =>
        \A t \in 1..Len(last.pre_loans) :
            /\ FirstActive(last.pre_loans, t, last.borrower)
            /\ last.amount > last.pre_loans[t].amount
                                - last.pre_loans[t].repaid_amount
            => /\ last.result = Ok
               /\ loans[t].repaid_amount
                    = last.pre_loans[t].repaid_amount + last.amount
               /\ total_funds = last.pre_total_funds
                                    + last.amount - (last.amount \div 20)
               /\ loans[t].savings
                    = last.pre_loans[t].savings + (last.amount \div 20)
               /\ insurance_fund = last.pre_insurance_fund
                                    + ((last.amount \div 20) \div 2)
               /\ ~loans[t].is_active

\* C17 witness: a partly repaid loan was overpaid, and repaid_amount exceeds
\* the principal.
C17_Witness ==
    /\ RepayCalled /\ last.result = Ok
    /\ last.pre_loans[last.target].repaid_amount > 0
    /\ last.amount > last.pre_loans[last.target].amount
                        - last.pre_loans[last.target].repaid_amount
    /\ loans[last.target].repaid_amount > loans[last.target].amount

\* principal - repaid_amount + savings of the loans at the positions 1..n.
RECURSIVE LoanBalanceUpTo(_, _)
LoanBalanceUpTo(ls, n) ==
    IF n = 0 THEN 0
    ELSE LoanBalanceUpTo(ls, n - 1)
            + (ls[n].amount - ls[n].repaid_amount + ls[n].savings)

\* C18: total_funds plus the sum over all loans of principal - repaid_amount
\* + savings equals the initial funds in every reachable state.
C18_LedgerBalance ==
    total_funds + LoanBalanceUpTo(loans, Len(loans)) = initial_funds

\* C18 witness: an overpaid closed loan next to an active loan.
C18_Witness ==
    /\ Len(loans) = 2
    /\ \E i \in 1..2 : loans[i].repaid_amount > loans[i].amount
    /\ \E j \in 1..2 : loans[j].is_active
    /\ total_funds > initial_funds

\* C19: request_loan never returns PoolUnavailable: the availability check is
\* the negation of the funds check before it.  A request that gets as far as
\* the rate's division has total_funds >= amount >= 10,000,000 > 0.
C19_PoolAlwaysAvailable ==
    RequestCalled =>
        /\ last.result # PoolUnavailable
        /\ last.result \in {Ok, InvalidAmount, InsufficientFunds}
        /\ last.pre_total_funds < last.amount
                <=> ~check_blend_pool_availability(last.pre_total_funds, last.amount)
        /\ last.result = Ok =>
                /\ last.pre_total_funds >= last.amount
                /\ last.amount >= 10000000
                /\ last.pre_total_funds > 0

\* C19 witness: a request for exactly the funds of the pool succeeded.
C19_Witness ==
    /\ RequestCalled /\ last.result = Ok
    /\ last.pre_total_funds = last.amount
    /\ total_funds = 0

(***************************************************************************)
(* i64 range.  A non-negative i64 is held in three 21-bit limbs, lowest     *)
(* first (63 bits in all), so that sums around 2^63 can be formed from      *)
(* 32-bit integers.                                                        *)
(***************************************************************************)
Limb == Pow2(21)

\* The limbs of n, 0 <= n < 2^31.
ToWide(n) == <<n % Limb, n \div Limb, 0>>

\* i64::MAX = 2^63 - 1.
I64_MAX == <<Limb - 1, Limb - 1, Limb - 1>>

\* a + b exceeds i64::MAX: the carry chain leaves the highest limb.
WideAddOverflows(a, b) ==
    LET s1 == a[1] + b[1]
        s2 == a[2] + b[2] + (s1 \div Limb)
        s3 == a[3] + b[3] + (s2 \div Limb)
    IN s3 >= Limb

\* a / d for a small positive d: long division from the highest limb down.
WideDivSmall(a, d) ==
    LET q3 == a[3] \div d
        r3 == a[3] % d
        q2 == (r3 * Limb + a[2]) \div d
        r2 == (r3 * Limb + a[2]) % d
        q1 == (r2 * Limb + a[1]) \div d
    IN <<q1, q2, q3>>

\* a - b for a >= b: subtraction with borrow.
WideSub(a, b) ==
    LET d1 == a[1] - b[1]
        w1 == IF d1 < 0 THEN 1 ELSE 0
        d2 == a[2] - b[2] - w1
        w2 == IF d2 < 0 THEN 1 ELSE 0
        d3 == a[3] - b[3] - w2
    IN <<d1 + w1 * Limb, d2 + w2 * Limb, d3>>

\* Positive amounts of repay_loan over the whole of i64: 1 and i64::MAX.
\* Line 71 rejects only amount <= 0, so both are accepted for an active loan.
I64RepayAmounts == {ToWide(1), I64_MAX}

\* C20: no call the contract accepts overflows i64: not repaid_amount +
\* amount, savings + amount/20, total_funds + (amount - amount/20) or
\* insurance_fund + (amount/20)/2 for any repayment repay_loan accepts in the
\* current state, and not total_funds - amount in an accepted request_loan.
C20_NoOverflow ==
    /\ RequestCalled /\ last.result = Ok =>
            total_funds >= 0 /\ total_funds <= last.pre_total_funds
    /\ \A borrower \in Borrowers : \A amount \in I64RepayAmounts :
            LET t   == FindActive(loans, borrower)
                cut == WideDivSmall(amount, SAVINGS_DIVISOR)
            IN t # 0 =>
                /\ ~WideAddOverflows(ToWide(loans[t].repaid_amount), amount)
                /\ ~WideAddOverflows(ToWide(loans[t].savings), cut)
                /\ ~WideAddOverflows(ToWide(total_funds), WideSub(amount, cut))
                /\ ~WideAddOverflows(ToWide(insurance_fund),
                                     WideDivSmall(cut, INSURANCE_DIVISOR))

====
